---- MODULE Spec2Model ----
(***************************************************************************)
(* A model of nwb_mcp_server/server.py: the memoized source locator        *)
(* (get_nwb_sources), the server lifespan (server_lifespan), the tool and  *)
(* resource handlers and the JSON serialization of query results.          *)
(*                                                                         *)
(* The dataframe/SQL engine (polars, lazynwb) and the storage listing are  *)
(* the environment: the engine answers a query from a fixed catalogue of   *)
(* tables or fails, and the storage listing may change at any time.        *)
(* The handlers are module-level callables whose code never looks at the   *)
(* lifespan's progress, so a call may arrive in any lifecycle state.       *)
(***************************************************************************)
EXTENDS Integers, Sequences, FiniteSets, TLC

\* ------------------------------------------------------------------ bounds
\* Number of request tasks that run concurrently with each other and with
\* the lifespan.
NumTasks == 1
\* Number of storage scans (glob executions) a run may perform.
MaxScans == 2
\* Number of rows of the largest table of the catalogue.
MaxRows == 6

Tasks == 1..NumTasks

\* ----------------------------------------------------------- configuration
\* ServerConfig: root_dir and glob_pattern keep their defaults, the two flags
\* are free.
ServerConfig ==
    { [root_dir |-> "data", glob_pattern |-> "**/*.nwb",
       no_code |-> nc, unattended |-> ua] : nc \in BOOLEAN, ua \in BOOLEAN }

\* What the storage may list under root_dir for glob_pattern (file names, in
\* listing order).
Listings == { <<>>, <<"a.nwb">>, <<"b.nwb", "a.nwb">> }

VARIABLES
    config,            \* the module-level ServerConfig instance
    fs,                \* environment: what the glob matches right now
    cache,             \* the functools.cache cell of get_nwb_sources
    scanLog,           \* what each execution of the glob matched, in order
    lifecycle,         \* where server_lifespan stands
    lifespan_context,  \* the AppContext the lifespan yielded, if any
    exitCause,         \* how server_lifespan ended
    buildInvoked,      \* lazynwb.get_sql_context has been called
    cacheCleared,      \* lazynwb.clear_cache has been executed
    zeroMatchStartup,  \* the lifespan's own storage scan matched no file
    enabled,           \* the tool descriptors' enabled flags
    task,              \* the request tasks
    returned,          \* every value get_nwb_sources has returned
    ioLog              \* which thread ran which I/O step

vars == <<config, fs, cache, scanLog, lifecycle, lifespan_context, exitCause,
          buildInvoked, cacheCleared, zeroMatchStartup, enabled, task,
          returned, ioLog>>

lifeVars == <<lifecycle, lifespan_context, exitCause, buildInvoked,
              cacheCleared, zeroMatchStartup>>

\* --------------------------------------------------------- source locator
\* upath.UPath(root).glob(pattern): one UPath per listed file, in order.
glob(root, listing) ==
    [i \in 1..Len(listing) |-> [root |-> root, name |-> listing[i]]]

\* UPath.as_posix()
as_posix(p) == p.root \o "/" \o p.name

EmptyCache == [hit |-> FALSE, value |-> <<>>]

\* A get_nwb_sources that scans on every call (no memoization).
get_nwb_sources_uncached(c, root, listing) ==
    LET nwb_paths == glob(root, listing) IN
    IF nwb_paths = <<>>
    THEN [raised |-> TRUE, value |-> <<>>, cache |-> c, scanned |-> TRUE]
    ELSE [raised |-> FALSE, value |-> nwb_paths, cache |-> c, scanned |-> TRUE]

\* A get_nwb_sources that returns the empty list instead of raising.
get_nwb_sources_noraise(c, root, listing) ==
    IF c.hit
    THEN [raised |-> FALSE, value |-> c.value, cache |-> c, scanned |-> FALSE]
    ELSE LET nwb_paths == glob(root, listing) IN
         [raised |-> FALSE, value |-> nwb_paths,
          cache |-> [hit |-> TRUE, value |-> nwb_paths], scanned |-> TRUE]

\* get_nwb_sources under functools.cache: a hit returns the stored list; a
\* miss scans, raises ValueError on zero matches (an exception is not
\* stored) and stores any other result.
get_nwb_sources(c, root, listing) ==
    IF c.hit
    THEN [raised |-> FALSE, value |-> c.value, cache |-> c, scanned |-> FALSE]
    ELSE LET nwb_paths == glob(root, listing) IN
         IF nwb_paths = <<>>
         THEN [raised |-> TRUE, value |-> <<>>, cache |-> c, scanned |-> TRUE]
         ELSE [raised |-> FALSE, value |-> nwb_paths,
               cache |-> [hit |-> TRUE, value |-> nwb_paths], scanned |-> TRUE]

\* The call as made from the thread `thread`: the cache cell, the scan
\* log, the set of returned values and the I/O log after it.
SourcesCall(thread) ==
    LET r == get_nwb_sources(cache, config.root_dir, fs) IN
    /\ cache' = r.cache
    /\ scanLog' = IF r.scanned THEN Append(scanLog, fs) ELSE scanLog
    /\ returned' = IF r.raised THEN returned ELSE returned \cup {r.value}
    /\ ioLog' = IF r.scanned
                THEN ioLog \cup {[op |-> "glob", thread |-> thread]}
                ELSE ioLog

\* The call is within the scan budget of the model.
CanCallSources == cache.hit \/ Len(scanLog) < MaxScans

\* ------------------------------------------------- the engine (environment)
Int64 == "Int64"
String == "String"
ListArray == "List(Array(Float64, 2))"
ListList == "List(List(Float64))"

Col(n, d) == [name |-> n, dtype |-> d]

\* The tables the SQL context holds: a pl.DataFrame is its height and its
\* columns (name and dtype, in order).
Catalog ==
    [tbl \in {"session", "spikes", "trials", "units"} |->
        CASE tbl = "session" ->
                [height |-> 1,
                 columns |-> <<Col("id", Int64), Col("pairs", ListList)>>]
          [] tbl = "spikes" ->
                [height |-> 2,
                 columns |-> <<Col("id", Int64), Col("waveforms", ListArray)>>]
          [] tbl = "trials" ->
                [height |-> 0,
                 columns |-> <<Col("id", Int64), Col("obs_intervals", ListArray)>>]
          [] tbl = "units" ->
                [height |-> MaxRows,
                 columns |-> <<Col("id", Int64), Col("obs_intervals", ListArray)>>]]

\* pl.SQLContext.tables(): the registered names, sorted.
db_tables == <<"session", "spikes", "trials", "units">>

NoLimit == -1

\* A SQL text, by its clauses. The empty text is the one with no clause.
Sql(select, from, limit) == [select |-> select, from |-> from, limit |-> limit]
EmptySQL == Sql(<<>>, "", NoLimit)

\* repr(c) of a Python str
repr(c) == "'" \o c \o "'"

ColumnNames == {"id", "obs_intervals", "waveforms", "pairs"}

Min(a, b) == IF a < b THEN a ELSE b

Limited(h, limit) == IF limit = NoLimit THEN h ELSE Min(h, limit)

\* The columns a select list picks from a table: "*" is every column, a
\* quoted item is a string literal, a bare item is the column of that name.
Selected(select, columns) ==
    IF select = <<"*">> THEN columns
    ELSE [i \in 1..Len(select) |->
            IF select[i] \in { repr(c) : c \in ColumnNames }
            THEN Col("literal", String)
            ELSE LET k == CHOOSE k \in 1..Len(columns) :
                              columns[k].name = select[i]
                 IN columns[k]]

\* The select list names only what the table has.
Resolvable(select, columns) ==
    \/ select = <<"*">>
    \/ \A i \in 1..Len(select) :
          \/ select[i] \in { repr(c) : c \in ColumnNames }
          \/ \E k \in 1..Len(columns) : columns[k].name = select[i]

\* Only string literals are selected.
OnlyLiterals(select) ==
    /\ select # <<"*">>
    /\ \A i \in 1..Len(select) : select[i] \in { repr(c) : c \in ColumnNames }

EngineError == [ok |-> FALSE, df |-> [height |-> 0, columns |-> <<>>]]
Frame(h, columns) == [ok |-> TRUE, df |-> [height |-> h, columns |-> columns]]

\* db.execute(query): what the engine may answer. Any execution may fail
\* (storage, schema inference); an unknown table or column always fails; a
\* row limit is honoured; a select list of literals alone may be answered
\* with the single broadcast row.
db_execute(query) ==
    IF query.from \notin DOMAIN Catalog THEN {EngineError}
    ELSE LET tbl == Catalog[query.from] IN
         IF ~Resolvable(query.select, tbl.columns) THEN {EngineError}
         ELSE {EngineError,
               Frame(Limited(tbl.height, query.limit),
                     Selected(query.select, tbl.columns))}
              \cup
              (IF OnlyLiterals(query.select)
               THEN {Frame(Limited(1, query.limit),
                           Selected(query.select, tbl.columns))}
               ELSE {})

\* ------------------------------------------------------------ serialization
\* df.cast({'obs_intervals': pl.List(pl.List(pl.Float64))})
cast_obs_intervals(df) ==
    [df EXCEPT !.columns =
        [i \in 1..Len(df.columns) |->
            IF df.columns[i].name = "obs_intervals"
            THEN Col("obs_intervals", ListList)
            ELSE df.columns[i]]]

\* The JSON text of one cell of the given dtype.
CellText(d) ==
    CASE d = Int64 -> "0"
      [] d = String -> "\"s\""
      [] OTHER -> "[[0.0,1.0]]"

RECURSIVE RowText(_, _)
RowText(columns, i) ==
    IF i > Len(columns) THEN ""
    ELSE (IF i > 1 THEN "," ELSE "")
         \o "\"" \o columns[i].name \o "\":" \o CellText(columns[i].dtype)
         \o RowText(columns, i + 1)

RECURSIVE RowsText(_, _)
RowsText(row, n) ==
    IF n = 0 THEN ""
    ELSE "{" \o row \o "}" \o (IF n > 1 THEN "," ELSE "") \o RowsText(row, n - 1)

\* pl.DataFrame.write_json(): row-oriented JSON; it crashes on a column of
\* lists of arrays.
write_json(df) ==
    IF \E i \in 1..Len(df.columns) : df.columns[i].dtype = ListArray
    THEN [raised |-> TRUE, text |-> ""]
    ELSE [raised |-> FALSE,
          text |-> "[" \o RowsText(RowText(df.columns, 1), df.height) \o "]"]

\* ------------------------------------------------------------ tool registry
ToolNames == {"get_tables", "get_table_schema", "execute_query",
              "preview_table_values"}

\* A registry that enables every tool whatever the flags.
ToolRegistry_all(cfg) == [n \in ToolNames |-> TRUE]

\* The enabled flag each @server.tool(...) decorator passes at import.
ToolRegistry(cfg) ==
    [n \in ToolNames |-> IF n = "execute_query" THEN cfg.no_code ELSE TRUE]

\* ---------------------------------------------------------------- outcomes
Outcome(kind, text, rows, value) ==
    [kind |-> kind, text |-> text, rows |-> rows, value |-> value]
NoOutcome == Outcome("none", "", 0, <<>>)
Raised(kind) == Outcome(kind, "", 0, <<>>)
Json(text, rows) == Outcome("json", text, rows, <<>>)

\* A request task: where its handler stands, the call it serves (tool,
\* table argument, SQL text), how many engine calls it has handed to a
\* worker, what the engine answered and what the handler returned or raised.
IdleTask ==
    [pc |-> "idle", tool |-> "", table |-> "", query |-> EmptySQL,
     calls |-> 0, answer |-> EngineError, out |-> NoOutcome]

\* A call of `tool` that has ended with `out` before reaching the engine.
Ended(tool, table, query, out) ==
    [pc |-> "done", tool |-> tool, table |-> table, query |-> query,
     calls |-> 0, answer |-> EngineError, out |-> out]

\* A call of `tool` waiting for the worker thread it started.
Awaiting(tool, table, query) ==
    [pc |-> "inflight", tool |-> tool, table |-> table, query |-> query,
     calls |-> 1, answer |-> EngineError, out |-> NoOutcome]

\* The dispatcher can start a handler for task t.
Free(t) == task[t].pc # "inflight"

\* asyncio.to_thread(ctx.request_context.lifespan_context.db.<method>, ...):
\* without a yielded AppContext the attribute lookup fails; with one, the
\* method runs on a worker thread and the task waits for it.
ToThreadDb(t, tool, table, query, op) ==
    IF lifespan_context.set
    THEN /\ task' = [task EXCEPT ![t] = Awaiting(tool, table, query)]
         /\ ioLog' = ioLog \cup {[op |-> op, thread |-> "worker"]}
    ELSE /\ task' = [task EXCEPT ![t] =
                        Ended(tool, table, query, Raised("AttributeError"))]
         /\ ioLog' = ioLog

\* ------------------------------------------------------------------ lifespan
\* server_lifespan up to its first await: get_nwb_sources() is evaluated as
\* an argument, on the thread that runs the coroutine; if it raises, the
\* exception leaves the generator (the try block has not been entered);
\* otherwise lazynwb.get_sql_context is handed to a worker thread.
LifespanStart ==
    /\ lifecycle = "NotStarted"
    /\ CanCallSources
    /\ SourcesCall("dispatcher")
    /\ zeroMatchStartup' = (~cache.hit /\ Len(fs) = 0)
    /\ LET r == get_nwb_sources(cache, config.root_dir, fs) IN
       IF r.raised
       THEN /\ lifecycle' = "Stopped"
            /\ exitCause' = "ValueError"
            /\ buildInvoked' = FALSE
       ELSE /\ lifecycle' = "Starting"
            /\ exitCause' = exitCause
            /\ buildInvoked' = TRUE
    /\ UNCHANGED <<config, fs, lifespan_context, cacheCleared, enabled, task>>

\* The worker returns the SQL context: the lifespan yields AppContext.
BuildDone ==
    /\ lifecycle = "Starting"
    /\ lifecycle' = "Ready"
    /\ lifespan_context' = [set |-> TRUE]
    /\ ioLog' = ioLog \cup {[op |-> "get_sql_context", thread |-> "worker"]}
    /\ UNCHANGED <<config, fs, cache, scanLog, exitCause, buildInvoked,
                   cacheCleared, zeroMatchStartup, enabled, task, returned>>

\* lazynwb.get_sql_context raises on the worker: the exception leaves the
\* generator before the try block.
BuildFailed ==
    /\ lifecycle = "Starting"
    /\ lifecycle' = "Stopped"
    /\ exitCause' = "BuildError"
    /\ ioLog' = ioLog \cup {[op |-> "get_sql_context", thread |-> "worker"]}
    /\ UNCHANGED <<config, fs, cache, scanLog, lifespan_context, buildInvoked,
                   cacheCleared, zeroMatchStartup, enabled, task, returned>>

\* The framework leaves the context, normally or with an error thrown into
\* the generator at the yield: the finally block hands lazynwb.clear_cache
\* to a worker thread.
LifespanExit ==
    /\ lifecycle = "Ready"
    /\ lifecycle' = "ShuttingDown"
    /\ \E cause \in {"clean", "error"} : exitCause' = cause
    /\ UNCHANGED <<config, fs, cache, scanLog, lifespan_context, buildInvoked,
                   cacheCleared, zeroMatchStartup, enabled, task, returned,
                   ioLog>>

\* The worker has run lazynwb.clear_cache.
ClearDone ==
    /\ lifecycle = "ShuttingDown"
    /\ lifecycle' = "Stopped"
    /\ cacheCleared' = TRUE
    /\ ioLog' = ioLog \cup {[op |-> "clear_cache", thread |-> "worker"]}
    /\ UNCHANGED <<config, fs, cache, scanLog, lifespan_context, exitCause,
                   buildInvoked, zeroMatchStartup, enabled, task, returned>>

\* Environment: files appear under or disappear from the root directory.
\* Once a listing is memoized the program never reads the storage again, so
\* later changes are left out.
FsChange ==
    /\ ~cache.hit
    /\ \E l \in Listings \ {fs} : fs' = l
    /\ UNCHANGED <<config, cache, scanLog, lifeVars, enabled, task, returned,
                   ioLog>>

\* ------------------------------------------------------------------ inputs
\* Table names a caller may pass: empty, known, unknown.
SchemaInputs == {"", "units", "nosuch"}

\* The `columns` argument: None, a single str, or a list of names.
NoColumns == [is_str |-> FALSE, str |-> "", items |-> <<>>]
StrColumns(c) == [is_str |-> TRUE, str |-> c, items |-> <<>>]
ListColumns(l) == [is_str |-> FALSE, str |-> "", items |-> l]
PreviewColumns ==
    {NoColumns, StrColumns("id"), ListColumns(<<"id", "obs_intervals">>)}

\* The (table, columns) pairs a caller may pass to preview_table_values.
PreviewInputs ==
    ({"units"} \X PreviewColumns)
    \cup ({"", "trials", "spikes"} \X {NoColumns})
    \cup {<<"trials", ListColumns(<<"id", "obs_intervals">>)>>}

\* SQL texts a caller may pass to execute_query.
SqlInputs ==
    {EmptySQL,
     Sql(<<"*">>, "units", NoLimit),
     Sql(<<"*">>, "session", NoLimit),
     Sql(<<"id">>, "units", 0),
     Sql(<<"nocol">>, "units", NoLimit)}

\* ---------------------------------------------------------------- handlers
\* get_tables: db.tables runs on a worker thread.
get_tables(t) ==
    /\ Free(t)
    /\ enabled["get_tables"]
    /\ ToThreadDb(t, "get_tables", "", EmptySQL, "tables")
    /\ UNCHANGED <<config, fs, cache, scanLog, lifeVars, enabled, returned>>

\* A get_table_schema that accepts every table name.
get_table_schema_check_none(table_name) == TRUE

\* `if not table_name: raise ValueError(...)`: TRUE when the name passes.
get_table_schema_check(table_name) == table_name # ""

\* f"SELECT * FROM {table_name} LIMIT 0"
get_table_schema_query(table_name) == Sql(<<"*">>, table_name, 0)

get_table_schema(t, table_name) ==
    /\ Free(t)
    /\ enabled["get_table_schema"]
    /\ IF ~get_table_schema_check(table_name)
       THEN /\ task' = [task EXCEPT ![t] =
                          Ended("get_table_schema", table_name, EmptySQL,
                                Raised("ValueError"))]
            /\ ioLog' = ioLog
       ELSE ToThreadDb(t, "get_table_schema", table_name,
                       get_table_schema_query(table_name), "execute")
    /\ UNCHANGED <<config, fs, cache, scanLog, lifeVars, enabled, returned>>

\* _execute_query up to its await: an empty text raises ValueError, any
\* other is handed to db.execute on a worker thread.
_execute_query(t, tool, table, query) ==
    IF query = EmptySQL
    THEN /\ task' = [task EXCEPT ![t] =
                        Ended(tool, table, query, Raised("ValueError"))]
         /\ ioLog' = ioLog
    ELSE ToThreadDb(t, tool, table, query, "execute")

\* execute_query: registered with enabled=config.no_code.
execute_query(t, query) ==
    /\ Free(t)
    /\ enabled["execute_query"]
    /\ _execute_query(t, "execute_query", "", query)
    /\ UNCHANGED <<config, fs, cache, scanLog, lifeVars, enabled, returned>>

\* `not columns`
Falsy(columns) ==
    IF columns.is_str THEN columns.str = "" ELSE columns.items = <<>>

\* A preview query with no row limit.
preview_query_unlimited(table, columns) ==
    Sql(<<"*">>, table, NoLimit)

\* The query preview_table_values builds: "*" or the repr of each column,
\* a single str being wrapped in a list first, and LIMIT 1.
preview_query(table, columns) ==
    LET wrapped == IF columns.is_str THEN <<columns.str>> ELSE columns.items
        column_query ==
            IF Falsy(columns) THEN <<"*">>
            ELSE [i \in 1..Len(wrapped) |-> repr(wrapped[i])]
    IN Sql(column_query, table, 1)

preview_table_values(t, table, columns) ==
    /\ Free(t)
    /\ enabled["preview_table_values"]
    /\ IF table = ""
       THEN /\ task' = [task EXCEPT ![t] =
                          Ended("preview_table_values", table, EmptySQL,
                                Raised("ValueError"))]
            /\ ioLog' = ioLog
       ELSE _execute_query(t, "preview_table_values", table,
                           preview_query(table, columns))
    /\ UNCHANGED <<config, fs, cache, scanLog, lifeVars, enabled, returned>>

\* The nwb_paths resource: a plain function, run by the thread that
\* dispatches the request; it resolves the sources itself.
nwb_paths(t) ==
    /\ Free(t)
    /\ CanCallSources
    /\ SourcesCall("dispatcher")
    /\ LET r == get_nwb_sources(cache, config.root_dir, fs) IN
       task' = [task EXCEPT ![t] =
                  Ended("nwb_paths", "", EmptySQL,
                        IF r.raised THEN Raised("ValueError")
                        ELSE Outcome("paths", "", 0,
                                     [i \in 1..Len(r.value) |->
                                         as_posix(r.value[i])]))]
    /\ UNCHANGED <<config, fs, lifeVars, enabled>>

\* A serialization that answers an empty frame with no text at all.
serialize_result_null(df) ==
    IF df.height = 0 THEN Outcome("json", "null", 0, <<>>)
    ELSE LET w == write_json(df) IN
         IF w.raised THEN Raised("WriterError") ELSE Json(w.text, df.height)

\* _execute_query after its await: "[]" for an empty frame; otherwise the
\* column named obs_intervals, when there is one, is cast and the frame is
\* written as JSON.
serialize_result(df) ==
    IF df.height = 0 THEN Json("[]", 0)
    ELSE LET d == IF \E i \in 1..Len(df.columns) :
                        df.columns[i].name = "obs_intervals"
                  THEN cast_obs_intervals(df) ELSE df
             w == write_json(d)
         IN IF w.raised THEN Raised("WriterError") ELSE Json(w.text, d.height)

\* What the awaiting handler of `tool` returns once the worker has answered:
\* get_tables the names, get_table_schema the LazyFrame's schema, the two
\* query tools the serialized frame; an engine failure is re-raised.
Answer(tool, r) ==
    CASE tool = "get_tables" -> Outcome("tables", "", 0, db_tables)
      [] tool = "get_table_schema" ->
            IF r.ok THEN Outcome("schema", "", 0, r.df.columns)
            ELSE Raised("EngineError")
      [] OTHER ->
            IF r.ok THEN serialize_result(r.df) ELSE Raised("EngineError")

\* A handler that hands a failed engine call to a worker once more.
Resume_retry(rec, r) ==
    IF ~r.ok /\ rec.tool # "get_tables" /\ rec.calls < 2
    THEN [rec EXCEPT !.calls = 2]
    ELSE [rec EXCEPT !.pc = "done", !.answer = r, !.out = Answer(rec.tool, r)]

\* The handler resumed at its await with the worker's answer r: it returns
\* or re-raises at once; no handler catches an exception or calls again.
Resume(rec, r) ==
    [rec EXCEPT !.pc = "done", !.answer = r, !.out = Answer(rec.tool, r)]

\* The worker thread of task t finishes and the handler runs to its end.
Complete(t) ==
    /\ task[t].pc = "inflight"
    /\ \E r \in (IF task[t].tool = "get_tables" THEN {EngineError}
                 ELSE db_execute(task[t].query)) :
          task' = [task EXCEPT ![t] = Resume(task[t], r)]
    /\ UNCHANGED <<config, fs, cache, scanLog, lifeVars, enabled, returned,
                   ioLog>>

\* --------------------------------------------------------------- behaviour
Init ==
    /\ config \in ServerConfig
    /\ fs \in Listings
    /\ cache = EmptyCache
    /\ scanLog = <<>>
    /\ lifecycle = "NotStarted"
    /\ lifespan_context = [set |-> FALSE]
    /\ exitCause = "none"
    /\ buildInvoked = FALSE
    /\ cacheCleared = FALSE
    /\ zeroMatchStartup = FALSE
    /\ enabled = ToolRegistry(config)
    /\ task = [t \in Tasks |-> IdleTask]
    /\ returned = {}
    /\ ioLog = {}

Next ==
    \/ \E t \in Tasks : nwb_paths(t)
    \/ LifespanStart
    \/ BuildDone
    \/ BuildFailed
    \/ LifespanExit
    \/ ClearDone
    \/ FsChange
    \/ \E t \in Tasks : get_tables(t)
    \/ \E t \in Tasks : \E n \in SchemaInputs : get_table_schema(t, n)
    \/ \E t \in Tasks : \E q \in SqlInputs : execute_query(t, q)
    \/ \E t \in Tasks : \E i \in PreviewInputs :
          preview_table_values(t, i[1], i[2])
    \/ \E t \in Tasks : Complete(t)

Spec == Init /\ [][Next]_vars

\* ------------------------------------------------------------------ claims
\* A handler has run for task t in this step (the dispatcher only starts a
\* handler for a task that is not waiting for a worker).
Served(t) == task[t].pc # "inflight" /\ task'[t] # task[t]

\* C1: a tool or resource call that arrives while the lifecycle is not Ready
\* ends at once with a NotReady outcome and performs no file listing and no
\* SQL execution.
C1_NotReadyOutsideReady ==
    [][\A t \in Tasks :
          (Served(t) /\ lifecycle # "Ready") =>
              /\ task'[t].pc = "done"
              /\ task'[t].out.kind = "NotReady"
              /\ scanLog' = scanLog
              /\ ioLog' = ioLog]_vars

\* C2: once server_lifespan has ended, on whatever path, lazynwb.clear_cache
\* has been executed.
C2_CacheClearedOnEveryExit ==
    lifecycle = "Stopped" => cacheCleared

\* C3: when the lifespan's storage scan matches zero files, get_nwb_sources
\* raises, no AppContext is yielded, the SQL-context build is never invoked
\* and Ready is not reached.
C3_ZeroMatchesNeverReady ==
    zeroMatchStartup =>
        /\ lifecycle = "Stopped"
        /\ exitCause = "ValueError"
        /\ ~lifespan_context.set
        /\ ~buildInvoked

C3_Witness ==
    /\ zeroMatchStartup
    /\ lifecycle = "Stopped"
    /\ scanLog = <<(<<>>)>>

\* C4: all the values get_nwb_sources returns within one process are the
\* same ordered list, and at most one scan that matches a file is ever
\* made (so with a matching configuration the storage is scanned once).
C4_SourcesMemoized ==
    /\ \A v \in returned : \A w \in returned : v = w
    /\ Cardinality({ i \in 1..Len(scanLog) : scanLog[i] # <<>> }) <= 1
    /\ (\A i \in 1..Len(scanLog) : scanLog[i] # <<>>) => Len(scanLog) <= 1

C4_Witness ==
    /\ lifecycle = "Ready"
    /\ scanLog = <<(<<"b.nwb", "a.nwb">>)>>
    /\ \A t \in Tasks :
          /\ task[t].tool = "nwb_paths"
          /\ task[t].out.value = <<"data/b.nwb", "data/a.nwb">>

\* C5: get_table_schema with an empty table name only ever ends with
\* ValueError (InvalidArgument), in every lifecycle state, with or without
\* a Query Handle, and is never handed to the engine.
C5_EmptyTableNameRejected ==
    \A t \in Tasks :
        (task[t].tool = "get_table_schema" /\ task[t].table = "") =>
            /\ task[t].pc = "done"
            /\ task[t].out = Raised("ValueError")
            /\ task[t].answer = EngineError

C5_Witness ==
    /\ lifecycle = "Ready"
    /\ lifespan_context.set
    /\ \E t \in Tasks :
          /\ task[t].tool = "get_table_schema"
          /\ task[t].table = ""
          /\ task[t].out.kind = "ValueError"

\* C6: a non-empty SQL text whose execution yields zero rows is answered
\* with exactly the text "[]".
C6_ZeroRowsIsEmptyArray ==
    \A t \in Tasks :
        ( /\ task[t].pc = "done"
          /\ task[t].tool \in {"execute_query", "preview_table_values"}
          /\ task[t].query # EmptySQL
          /\ task[t].answer.ok
          /\ task[t].answer.df.height = 0 ) =>
            /\ task[t].out.kind = "json"
            /\ task[t].out.text = "[]"

C6_Witness ==
    \E t \in Tasks :
        /\ task[t].pc = "done"
        /\ task[t].tool = "execute_query"
        /\ task[t].query = Sql(<<"id">>, "units", 0)
        /\ task[t].answer.ok
        /\ task[t].out.text = "[]"

\* C7: the query preview_table_values builds carries a row limit of at most
\* 5, and a preview of a non-empty table returns between 1 and 5 rows.
C7_PreviewRowsBounded ==
    \A t \in Tasks :
        (task[t].tool = "preview_table_values" /\ task[t].query # EmptySQL) =>
            /\ task[t].query.limit \in 0..5
            /\ ( /\ task[t].pc = "done"
                 /\ task[t].answer.ok
                 /\ Catalog[task[t].table].height > 0 ) =>
                    /\ task[t].answer.df.height \in 1..5
                    /\ task[t].out.kind = "json" =>
                           task[t].out.rows \in 1..5

C7_Witness ==
    \E t \in Tasks :
        /\ task[t].pc = "done"
        /\ task[t].tool = "preview_table_values"
        /\ task[t].table = "units"
        /\ Catalog["units"].height > 5
        /\ task[t].out.kind = "json"
        /\ task[t].out.rows = 1

\* C8: serializing a non-empty query result never raises: every column of
\* lists of lists or lists of arrays, whatever its name, has been normalized
\* before the JSON writer is called.
C8_NestedColumnsNeverCrash ==
    \A t \in Tasks :
        (task[t].pc = "done" /\ task[t].answer.ok) =>
            task[t].out.kind # "WriterError"

\* C9: the enabled flags are those fixed at import from the configuration:
\* execute_query is enabled exactly when no_code is set, the other three
\* tools always; no request changes them, and execute_query is only ever
\* served under no_code.
C9_ToolSetFixed ==
    /\ enabled["execute_query"] = config.no_code
    /\ enabled["get_tables"]
    /\ enabled["get_table_schema"]
    /\ enabled["preview_table_values"]
    /\ \A t \in Tasks : task[t].tool = "execute_query" => config.no_code

C9_Witness ==
    /\ ~config.no_code
    /\ ~config.unattended
    /\ ~enabled["execute_query"]
    /\ lifecycle = "Stopped"
    /\ \A t \in Tasks : task[t].pc = "done"

\* C10: every step that performs file I/O or SQL execution (the storage
\* scan, the SQL-context build, listing tables, executing a query, clearing
\* the cache) runs on a worker thread, never on the dispatcher thread.
C10_IoOnlyOnWorkers ==
    \A e \in ioLog : e.thread = "worker"

\* C11: the lifecycle only moves NotStarted -> Starting -> Ready ->
\* ShuttingDown -> Stopped, one state at a time: Ready is entered only from
\* Starting with the sources resolved and the SQL context built, Stopped only
\* from ShuttingDown, and the one AppContext of the run is created on
\* entering Ready.
LifecycleOrder ==
    { <<"NotStarted", "Starting">>, <<"Starting", "Ready">>,
      <<"Ready", "ShuttingDown">>, <<"ShuttingDown", "Stopped">> }

C11_NoTransitionSkipped ==
    [][ /\ lifecycle' # lifecycle => <<lifecycle, lifecycle'>> \in LifecycleOrder
        /\ lifecycle' = "Ready" /\ lifecycle # "Ready" =>
              /\ cache'.hit
              /\ buildInvoked'
              /\ ~lifespan_context.set
              /\ lifespan_context'.set
        /\ lifespan_context' # lifespan_context =>
              lifecycle = "Starting" /\ lifecycle' = "Ready" ]_vars

\* C12: while Ready, a tool call that fails, with ValueError before the
\* engine is reached or with the engine's error after one engine call, ends
\* in that step with the error as its single outcome and no further engine
\* call, and leaves the lifecycle Ready and the configuration, the memoized
\* sources, the AppContext and the tool flags as they were, so the task can
\* be served again.
Failures == {"ValueError", "EngineError"}

C12_FailureReportedOnce ==
    [][\A t \in Tasks :
          /\ (lifecycle = "Ready" /\ task[t].pc = "inflight"
                /\ task'[t] # task[t]) =>
                /\ task'[t].pc = "done"
                /\ task'[t].calls = 1
                /\ task[t].calls = 1
                /\ ~task'[t].answer.ok /\ task[t].tool # "get_tables" =>
                      task'[t].out = Raised("EngineError")
          /\ (lifecycle = "Ready" /\ task'[t] # task[t]
                /\ task'[t].out.kind \in Failures) =>
                /\ task'[t].pc = "done"
                /\ task'[t].calls \in 0..1
                /\ task'[t].out.kind = "ValueError" => task'[t].calls = 0
                /\ lifecycle' = "Ready"
                /\ lifespan_context' = lifespan_context
                /\ lifespan_context'.set
                /\ config' = config
                /\ cache' = cache
                /\ enabled' = enabled]_vars

C12_Witness ==
    /\ lifecycle = "Ready"
    /\ \E t \in Tasks :
          /\ task[t].pc = "done"
          /\ task[t].tool = "execute_query"
          /\ task[t].query = Sql(<<"nocol">>, "units", NoLimit)
          /\ task[t].calls = 1
          /\ task[t].out = Raised("EngineError")

====
